---- MODULE Spec2Model ----
(***************************************************************************)
(* Regulatory-Search-Agent: a model of the session context                 *)
(* (app/services/context_manager.py), the FAISS vector store               *)
(* (app/services/vector_store.py) and the two retrieval orchestrators      *)
(* (app/core/orchestrator.py, app/core/autonomous_orchestrator.py).        *)
(*                                                                         *)
(* Python values are modelled as follows: a list is a sequence, a dict     *)
(* with a fixed key set is a record, a dict keyed by session id is a       *)
(* function whose DOMAIN is the set of keys present, None is the string    *)
(* None.  Timestamps (created_at, last_updated, the query log's timestamp) *)
(* are not modelled: no decision of the code reads them.                   *)
(***************************************************************************)
EXTENDS Integers, Sequences, FiniteSets, TLC

VARIABLES contexts, vsIndex, vsMeta, diskIndex, diskMeta, faults, ingestedFor,
          ret, out

vars == <<contexts, vsIndex, vsMeta, diskIndex, diskMeta, faults, ingestedFor,
          ret, out>>

(***************************************************************************)
(* Bounds of the model.                                                    *)
(***************************************************************************)
MaxQueries == 1

\* Rows a store may hold before a further add_documents call is made.
MaxVectors == 3

\* Largest k a search is called with.
MaxK == 3

\* Calls into the environment (a download, a document's processing, an
\* embedding, a file write or read, a source's listing) that fail in one
\* behaviour.
MaxFaults == 1

\* A retrieval pass starts only while the index holds fewer rows than this.
MaxPreloaded == 1

\* A retrieval pass is repeated only on an index of at most this many rows.
MaxRepeatRows == 3

\* Lists of context chunks of every kind have at most MaxMixed elements;
\* lists of the two kinds that fill a prompt section have up to MaxContexts.
MaxMixed == 3
MaxContexts == 6

\* A user query is taken only while the index holds at most this many rows.
MaxQueryRows == 1

(***************************************************************************)
(* Values.                                                                 *)
(***************************************************************************)
None == "<None>"

\* Subject names the query analyzer can hand over: two spellings of one
\* drug, another drug, and the empty string.
Names == {"Keytruda", "keytruda", "Humira", ""}

Sessions == {"s1", "s2"}

TopicNames == {"safety"}

CtxDocs == {"dl/FDA_a.pdf"}

\* str.lower() on the strings of the model.
Lower(s) ==
    CASE s = "Keytruda" -> "keytruda"
      [] s = "Humira" -> "humira"
      [] OTHER -> s

\* Python truthiness of an Optional[str]: None and "" are falsy.
Falsy(s) == s = None \/ s = ""

InSeq(x, sq) == \E i \in 1..Len(sq) : sq[i] = x

SeqToSet(sq) == {sq[i] : i \in 1..Len(sq)}

(***************************************************************************)
(* ConversationContext                                                     *)
(***************************************************************************)
DefaultAgencies == <<"FDA", "EMA">>

NewContext ==
    [current_drug |-> None,
     agencies |-> DefaultAgencies,
     topics |-> <<>>,
     documents_indexed |-> <<>>,
     query_history |-> <<>>]

update_drug_keeps_topics(c, drug_name) ==
    IF c.current_drug # drug_name
    THEN [c EXCEPT !.current_drug = drug_name]
    ELSE c

update_drug_forgets(c, drug_name) ==
    IF c.current_drug # drug_name
    THEN [c EXCEPT !.current_drug = drug_name, !.topics = <<>>,
                   !.documents_indexed = <<>>]
    ELSE c

update_drug(c, drug_name) ==
    IF c.current_drug # drug_name
    THEN [c EXCEPT !.current_drug = drug_name, !.topics = <<>>]
    ELSE c

RECURSIVE add_topics(_, _)
add_topics(c, topics) ==
    IF topics = <<>> THEN c
    ELSE LET t == Head(topics)
             c1 == IF InSeq(t, c.topics) THEN c
                   ELSE [c EXCEPT !.topics = Append(@, t)]
         IN add_topics(c1, Tail(topics))

set_agencies(c, agencies) == [c EXCEPT !.agencies = agencies]

add_document_appends(c, document_path) ==
    [c EXCEPT !.documents_indexed = Append(@, document_path)]

add_document(c, document_path) ==
    IF InSeq(document_path, c.documents_indexed) THEN c
    ELSE [c EXCEPT !.documents_indexed = Append(@, document_path)]

add_query(c, query, response) ==
    [c EXCEPT !.query_history = Append(@, [query |-> query, response |-> response])]

has_documents_for_drug(c, drug_name) ==
    IF Falsy(c.current_drug) THEN FALSE
    ELSE Lower(c.current_drug) = Lower(drug_name) /\ Len(c.documents_indexed) > 0

needs_new_documents_case_sensitive(c, drug_name) ==
    IF Falsy(c.current_drug) THEN TRUE
    ELSE IF c.current_drug # drug_name THEN TRUE
    ELSE IF Len(c.documents_indexed) = 0 THEN TRUE
    ELSE FALSE

needs_new_documents(c, drug_name) ==
    IF Falsy(c.current_drug) THEN TRUE
    ELSE IF Lower(c.current_drug) # Lower(drug_name) THEN TRUE
    ELSE IF Len(c.documents_indexed) = 0 THEN TRUE
    ELSE FALSE

reset_keeps_documents(c) ==
    [NewContext EXCEPT !.documents_indexed = c.documents_indexed]

reset(c) == NewContext

(***************************************************************************)
(* ContextManager                                                          *)
(***************************************************************************)
get_context_fresh(cs, session_id) ==
    [s \in DOMAIN cs \cup {session_id} |->
       IF s = session_id THEN NewContext ELSE cs[s]]

\* get_context: the dict after the call (the context is created on first use).
get_context(cs, session_id) ==
    IF session_id \in DOMAIN cs THEN cs
    ELSE [s \in DOMAIN cs \cup {session_id} |->
            IF s = session_id THEN NewContext ELSE cs[s]]

reset_context(cs, session_id) ==
    IF session_id \in DOMAIN cs
    THEN [cs EXCEPT ![session_id] = reset(cs[session_id])]
    ELSE cs

delete_context(cs, session_id) ==
    IF session_id \in DOMAIN cs
    THEN [s \in DOMAIN cs \ {session_id} |-> cs[s]]
    ELSE cs

(***************************************************************************)
(* The world outside the core: the agencies' catalogues, the text          *)
(* fragments document processing cuts each file into, and the embedding    *)
(* of each text.  An embedding is modelled as one integer coordinate and   *)
(* the L2 distance of IndexFlatL2 as the squared difference.               *)
(***************************************************************************)
KnownAgencies == {"FDA", "EMA"}

Catalog(agency) ==
    CASE agency = "FDA" -> <<"dl/FDA_1.pdf", "dl/FDA_2.pdf", "dl/FDA_3.pdf",
                             "dl/FDA_4.pdf", "dl/FDA_5.pdf">>
      [] agency = "EMA" -> <<"dl/EMA_1.pdf", "dl/EMA_2.pdf">>
      [] OTHER -> <<>>

Docs == SeqToSet(Catalog("FDA")) \cup SeqToSet(Catalog("EMA"))

\* Path(file_path).name
FileName(path) ==
    CASE path = "dl/FDA_1.pdf" -> "FDA_1.pdf"
      [] path = "dl/FDA_2.pdf" -> "FDA_2.pdf"
      [] path = "dl/FDA_3.pdf" -> "FDA_3.pdf"
      [] path = "dl/FDA_4.pdf" -> "FDA_4.pdf"
      [] path = "dl/FDA_5.pdf" -> "FDA_5.pdf"
      [] path = "dl/EMA_1.pdf" -> "EMA_1.pdf"
      [] path = "dl/EMA_2.pdf" -> "EMA_2.pdf"
      [] OTHER -> path

\* The chunks TextChunkingService.chunk_text yields for the file's text.
ChunksOf(path) ==
    CASE path = "dl/FDA_1.pdf" -> <<"f1a">>
      [] path = "dl/FDA_2.pdf" -> <<"f2a", "f2b">>
      [] path = "dl/FDA_3.pdf" -> <<"f3a">>
      [] path = "dl/FDA_4.pdf" -> <<"f4a">>
      [] path = "dl/FDA_5.pdf" -> <<"f5a">>
      [] path = "dl/EMA_1.pdf" -> <<"e1a", "e1b", "e1c">>
      [] path = "dl/EMA_2.pdf" -> <<"e2a", "e2b", "e2c">>
      [] OTHER -> <<>>

\* The embedding the gateway returns for a text.
Embed(text) ==
    CASE text \in {"f1a", "e1b", "e2a", "q1"} -> 0
      [] text \in {"f2a", "f4a", "e1c"} -> 1
      [] text \in {"f2b", "e1a", "e2b", "q2"} -> 3
      [] OTHER -> 4

Queries == {"q1", "q2"}

Min(a, b) == IF a < b THEN a ELSE b

(***************************************************************************)
(* DocumentProcessor.process_document: chunks and document metadata.       *)
(***************************************************************************)
process_document(file_path) ==
    [chunks |-> ChunksOf(file_path),
     metadata |-> [file_path |-> file_path,
                   file_name |-> FileName(file_path),
                   num_chunks |-> Len(ChunksOf(file_path)),
                   agency |-> None]]

(***************************************************************************)
(* VectorStoreService.  A store is its FAISS index (the rows, in order)    *)
(* and its metadata list; the two persisted files are diskIndex and        *)
(* diskMeta.  A write that fails leaves its file as it was.                *)
(***************************************************************************)
NoFile == [exists |-> FALSE, data |-> <<>>]

File(d) == [exists |-> TRUE, data |-> d]

EmptyStore == [index |-> <<>>, metadata |-> <<>>]

\* The metadata file is JSON: a list of objects whose values are written as
\* numbers or as strings.  The index file is faiss's binary image of the
\* vectors it holds.
NumberKeys == {"chunk_id", "chunk_index", "total_chunks"}

json_dump(metadata) ==
    [i \in 1..Len(metadata) |->
       [key \in DOMAIN metadata[i] |->
          IF key \in NumberKeys THEN [number |-> metadata[i][key]]
          ELSE [string |-> metadata[i][key]]]]

json_load(data) ==
    [i \in 1..Len(data) |->
       [key \in DOMAIN data[i] |->
          IF "number" \in DOMAIN data[i][key] THEN data[i][key].number
          ELSE data[i][key].string]]

load_index_fresh(dIndex, dMeta, readOk) == EmptyStore

\* _load_index; readOk = FALSE is faiss.read_index or json.load raising.
load_index(dIndex, dMeta, readOk) ==
    IF dIndex.exists /\ dMeta.exists
    THEN IF readOk THEN [index |-> dIndex.data, metadata |-> json_load(dMeta.data)]
         ELSE EmptyStore
    ELSE EmptyStore

SaveOutcomes == {"ok", "fail_index", "fail_meta"}

\* _save_index: "fail_index" is mkdir or faiss.write_index raising,
\* "fail_meta" is the metadata file's open or json.dump raising.
save_index(index, metadata, dIndex, dMeta, outcome) ==
    CASE outcome = "ok" ->
           [diskIndex |-> File(index), diskMeta |-> File(json_dump(metadata)), raised |-> ""]
      [] outcome = "fail_index" ->
           [diskIndex |-> dIndex, diskMeta |-> dMeta, raised |-> "save failed"]
      [] OTHER ->
           [diskIndex |-> File(index), diskMeta |-> dMeta, raised |-> "save failed"]

ChunkRecord(chunk_id, chunk, i, dm) ==
    [chunk_id |-> chunk_id,
     chunk_text |-> chunk,
     chunk_index |-> i,
     source_document |-> dm.file_name,
     file_path |-> dm.file_path,
     total_chunks |-> dm.num_chunks]

\* The loop of add_documents over enumerate(chunks); i is 1-based here and
\* failing is the set of positions whose generate_embedding raises.
RECURSIVE EmbedLoop_abort(_, _, _, _, _)
EmbedLoop_abort(i, chunks, dm, failing, acc) ==
    IF i > Len(chunks) \/ i \in failing THEN acc
    ELSE EmbedLoop_abort(i + 1, chunks, dm, failing,
            [embeddings |-> Append(acc.embeddings, Embed(chunks[i])),
             metadata |-> Append(acc.metadata,
                            ChunkRecord(Len(acc.metadata), chunks[i], i - 1, dm))])

RECURSIVE EmbedLoop(_, _, _, _, _)
EmbedLoop(i, chunks, dm, failing, acc) ==
    IF i > Len(chunks) THEN acc
    ELSE IF i \in failing THEN EmbedLoop(i + 1, chunks, dm, failing, acc)
    ELSE EmbedLoop(i + 1, chunks, dm, failing,
            [embeddings |-> Append(acc.embeddings, Embed(chunks[i])),
             metadata |-> Append(acc.metadata,
                            ChunkRecord(Len(acc.metadata), chunks[i], i - 1, dm))])

\* add_documents: the store and the files after the call, and the message
\* of the exception it raised ("" when it returned normally).
add_documents(st, dIndex, dMeta, chunks, dm, failing, saveOutcome) ==
    IF chunks = <<>>
    THEN [index |-> st.index, metadata |-> st.metadata,
          diskIndex |-> dIndex, diskMeta |-> dMeta,
          raised |-> "No chunks provided"]
    ELSE LET r == EmbedLoop(1, chunks, dm, failing,
                            [embeddings |-> <<>>, metadata |-> st.metadata])
         IN IF r.embeddings = <<>>
            THEN [index |-> st.index, metadata |-> r.metadata,
                  diskIndex |-> dIndex, diskMeta |-> dMeta,
                  raised |-> "No embeddings generated successfully"]
            ELSE LET idx == st.index \o r.embeddings
                     sv == save_index(idx, r.metadata, dIndex, dMeta, saveOutcome)
                 IN [index |-> idx, metadata |-> r.metadata,
                     diskIndex |-> sv.diskIndex, diskMeta |-> sv.diskMeta,
                     raised |-> sv.raised]

Dist(a, b) == (a - b) * (a - b)

FaissSearch_row_order(index, q, k, taken) ==
    [i \in 1..k |-> IF i <= Len(index)
                    THEN [idx |-> i - 1, dist |-> Dist(index[i], q)]
                    ELSE [idx |-> -1, dist |-> 0]]

\* faiss IndexFlatL2.search(q, k): the k nearest rows by ascending distance
\* (0-based row numbers; equal distances in row order), padded with row -1
\* when the index holds fewer than k rows.
RECURSIVE FaissSearch(_, _, _, _)
FaissSearch(index, q, k, taken) ==
    IF k = 0 THEN <<>>
    ELSE LET rest == (1..Len(index)) \ taken
         IN IF rest = {}
            THEN <<[idx |-> -1, dist |-> 0]>> \o FaissSearch(index, q, k - 1, taken)
            ELSE LET best == CHOOSE i \in rest : \A j \in rest :
                                \/ Dist(index[i], q) < Dist(index[j], q)
                                \/ (Dist(index[i], q) = Dist(index[j], q) /\ i <= j)
                 IN <<[idx |-> best - 1, dist |-> Dist(index[best], q)]>>
                    \o FaissSearch(index, q, k - 1, taken \cup {best})

RECURSIVE CollectResults(_, _)
CollectResults(hits, metadata) ==
    IF hits = <<>> THEN <<>>
    ELSE LET h == Head(hits)
         IN IF h.idx < Len(metadata) /\ h.idx >= 0
            THEN <<metadata[h.idx + 1] @@
                   [distance |-> h.dist,
                    similarity_score |-> [num |-> 1, den |-> 1 + h.dist]]>>
                 \o CollectResults(Tail(hits), metadata)
            ELSE CollectResults(Tail(hits), metadata)

search_embeds_first(st, query, k, embedOk) ==
    IF ~embedOk THEN [results |-> <<>>, raised |-> "Failed to generate embedding"]
    ELSE IF st.metadata = <<>> THEN [results |-> <<>>, raised |-> ""]
    ELSE [results |-> CollectResults(
                         FaissSearch(st.index, Embed(query),
                                     Min(k, Len(st.metadata)), {}),
                         st.metadata),
          raised |-> ""]

\* search: the result list, and the message of the exception raised.
search(st, query, k, embedOk) ==
    IF st.metadata = <<>> THEN [results |-> <<>>, raised |-> ""]
    ELSE IF ~embedOk THEN [results |-> <<>>, raised |-> "Failed to generate embedding"]
    ELSE [results |-> CollectResults(
                         FaissSearch(st.index, Embed(query),
                                     Min(k, Len(st.metadata)), {}),
                         st.metadata),
          raised |-> ""]

get_stats(st) ==
    [total_vectors |-> Len(st.metadata),
     unique_documents |->
        Cardinality({st.metadata[i].source_document : i \in 1..Len(st.metadata)})]

\* The record of the last call: its name, session, argument and result.
Call(op, sid, arg, val) == [op |-> op, sid |-> sid, arg |-> arg, val |-> val]

NoOutcome == [status |-> "none"]

\* The store instances of a deployment: the orchestrator's, the RAG
\* service's, and that of a second orchestrator (the API and each interface
\* construct their own) over the same files.
StoreIds == {"orch", "rag", "gui"}

InitStores ==
    /\ vsIndex = [i \in StoreIds |-> <<>>]
    /\ vsMeta = [i \in StoreIds |-> <<>>]
    /\ diskIndex = NoFile
    /\ diskMeta = NoFile
    /\ faults = 0

Init ==
    /\ contexts = <<>>
    /\ InitStores
    /\ ingestedFor = [s \in Sessions |-> {}]
    /\ ret = Call("init", "", "", FALSE)
    /\ out = NoOutcome

storeVars == <<vsIndex, vsMeta, diskIndex, diskMeta, faults>>

\* History kept for the statement of properties: the subjects (in lower
\* case) for which a process_query of the session ingested a document.
histVars == <<ingestedFor>>

(***************************************************************************)
(* Operations on a session's context, as the callers of ContextManager     *)
(* perform them: get_context(session) and then one method of the context.  *)
(***************************************************************************)
GetContext(s) ==
    /\ contexts' = get_context(contexts, s)
    /\ ret' = Call("get_context", s, "", s \notin DOMAIN contexts)
    /\ UNCHANGED <<storeVars, histVars, out>>

UpdateDrug(s, n) ==
    /\ s \in DOMAIN contexts
    /\ contexts' = [contexts EXCEPT ![s] = update_drug(@, n)]
    /\ ret' = Call("update_drug", s, n, contexts[s].current_drug # n)
    /\ UNCHANGED <<storeVars, histVars, out>>

AddTopics(s, ts) ==
    /\ s \in DOMAIN contexts
    /\ contexts' = [contexts EXCEPT ![s] = add_topics(@, ts)]
    /\ ret' = Call("add_topics", s, "", FALSE)
    /\ UNCHANGED <<storeVars, histVars, out>>

SetAgencies(s, ags) ==
    /\ s \in DOMAIN contexts
    /\ contexts' = [contexts EXCEPT ![s] = set_agencies(@, ags)]
    /\ ret' = Call("set_agencies", s, "", FALSE)
    /\ UNCHANGED <<storeVars, histVars, out>>

AddDocument(s, d) ==
    /\ s \in DOMAIN contexts
    /\ contexts' = [contexts EXCEPT ![s] = add_document(@, d)]
    /\ ret' = Call("add_document", s, d, ~InSeq(d, contexts[s].documents_indexed))
    /\ UNCHANGED <<storeVars, histVars, out>>

AddQuery(s) ==
    /\ s \in DOMAIN contexts
    /\ Len(contexts[s].query_history) < MaxQueries
    /\ contexts' = [contexts EXCEPT ![s] = add_query(@, "q", "a")]
    /\ ret' = Call("add_query", s, "", FALSE)
    /\ UNCHANGED <<storeVars, histVars, out>>

NeedsNewDocuments(s, n) ==
    /\ s \in DOMAIN contexts
    /\ ret' = Call("needs_new_documents", s, n, needs_new_documents(contexts[s], n))
    /\ UNCHANGED <<contexts, storeVars, histVars, out>>

ResetContext(s) ==
    /\ contexts' = reset_context(contexts, s)
    /\ ret' = Call("reset_context", s, "", s \in DOMAIN contexts)
    /\ UNCHANGED <<storeVars, histVars, out>>

DeleteContext(s) ==
    /\ contexts' = delete_context(contexts, s)
    /\ ret' = Call("delete_context", s, "", s \in DOMAIN contexts)
    /\ UNCHANGED <<storeVars, histVars, out>>

TopicLists == {<<>>} \cup {<<t>> : t \in TopicNames}

AgencyLists == {<<"FDA">>}

NextCtx ==
    \/ \E s \in Sessions : GetContext(s)
    \/ \E s \in Sessions, n \in Names : UpdateDrug(s, n)
    \/ \E s \in Sessions, ts \in TopicLists : AddTopics(s, ts)
    \/ \E s \in Sessions, ags \in AgencyLists : SetAgencies(s, ags)
    \/ \E s \in Sessions, d \in CtxDocs : AddDocument(s, d)
    \/ \E s \in Sessions : AddQuery(s)
    \/ \E s \in Sessions, n \in Names : NeedsNewDocuments(s, n)
    \/ \E s \in Sessions : ResetContext(s)
    \/ \E s \in Sessions : DeleteContext(s)

SpecCtx == Init /\ [][NextCtx]_vars

(***************************************************************************)
(* The environment of one retrieval pass: what each source's search_drug   *)
(* does (raise, or list the first n documents of its catalogue) and how    *)
(* far each document gets (its download, its processing, the embedding of  *)
(* its chunks or the save of the store may fail).                          *)
(***************************************************************************)
BadFates == {"dl_fail", "proc_fail", "embed_none", "embed_partial", "save_fail"}

FateFailing(fate, chunks) ==
    CASE fate = "embed_none" -> 1..Len(chunks)
      [] fate = "embed_partial" -> {1}
      [] OTHER -> {}

FateSave(fate) == IF fate = "save_fail" THEN "fail_meta" ELSE "ok"

ListingsOf(agency) ==
    {[raises |-> TRUE, n |-> 0]} \cup
    {[raises |-> FALSE, n |-> k] : k \in {0, Min(2, Len(Catalog(agency))), Len(Catalog(agency))}}

\* The faults an environment holds in store for the documents and sources.
EnvFaults(env) ==
    Cardinality({d \in Docs : env.fate[d] # "ok"})
    + Cardinality({a \in KnownAgencies : env.listing[a].raises})

\* The environment in which the sources list as l says and the documents of
\* DOMAIN bf meet the fate bf gives them.
Env(l, bf) ==
    [listing |-> l,
     fate |-> [d \in Docs |-> IF d \in DOMAIN bf THEN bf[d] ELSE "ok"]]

\* The documents the sources of a pass are asked to download.
Candidates(l, agencies, max_docs) ==
    UNION {SeqToSet(SubSeq(Catalog(a), 1,
                           Min(max_docs, Min(l[a].n, Len(Catalog(a)))))) :
              a \in {x \in SeqToSet(agencies) \cap KnownAgencies : ~l[x].raises}}

(***************************************************************************)
(* BaseScraper.search_and_download                                         *)
(***************************************************************************)
RECURSIVE DownloadLoop(_, _)
DownloadLoop(documents, env) ==
    IF documents = <<>> THEN <<>>
    ELSE IF env.fate[Head(documents)] = "dl_fail"
         THEN DownloadLoop(Tail(documents), env)
         ELSE <<Head(documents)>> \o DownloadLoop(Tail(documents), env)

search_and_download(agency, max_documents, env) ==
    IF env.listing[agency].raises THEN <<>>
    ELSE LET documents == SubSeq(Catalog(agency), 1,
                                 Min(env.listing[agency].n, Len(Catalog(agency))))
         IN IF documents = <<>> THEN <<>>
            ELSE DownloadLoop(SubSeq(documents, 1, Min(max_documents, Len(documents))),
                              env)

(***************************************************************************)
(* AgenticOrchestrator.retrieve_and_index                                  *)
(***************************************************************************)
\* An entry of the outcome's error list: the f-string and its fields.
ErrorEntry(fmt, arg, msg) == [fmt |-> fmt, arg |-> arg, msg |-> msg]

\* agencies = None
AgenciesNone == <<None>>

RECURSIVE FilterKnown(_)
FilterKnown(agencies) ==
    IF agencies = <<>> THEN <<>>
    ELSE IF Head(agencies) \in KnownAgencies
         THEN <<Head(agencies)>> \o FilterKnown(Tail(agencies))
         ELSE FilterKnown(Tail(agencies))

\* The running state of a pass: the store and its files, the outcome under
\* construction, the documents handed to process_document (attempted) and
\* the faults met.
StartPass(st, dIndex, dMeta) ==
    [index |-> st.index, metadata |-> st.metadata,
     diskIndex |-> dIndex, diskMeta |-> dMeta,
     agencies_searched |-> <<>>, documents_downloaded |-> <<>>,
     documents_indexed |-> 0, errors |-> <<>>,
     attempted |-> <<>>, nfaults |-> 0]

\* process_document and add_documents for one file; tag is the agency the
\* caller writes into the document metadata (None when it writes none).
IndexOne(f, tag, env, acc) ==
    LET pd == process_document(f)
        r == add_documents([index |-> acc.index, metadata |-> acc.metadata],
                           acc.diskIndex, acc.diskMeta, pd.chunks,
                           [pd.metadata EXCEPT !.agency = tag],
                           FateFailing(env.fate[f], pd.chunks),
                           FateSave(env.fate[f]))
    IN [acc EXCEPT !.index = r.index, !.metadata = r.metadata,
                   !.diskIndex = r.diskIndex, !.diskMeta = r.diskMeta,
                   !.nfaults = IF r.raised = "save failed" THEN @ + 1 ELSE @,
                   !.attempted = Append(@, [file |-> f, raised |-> r.raised])]

RECURSIVE IndexLoopAgentic_break(_, _, _)
IndexLoopAgentic_break(files, env, acc) ==
    IF files = <<>> THEN acc
    ELSE LET f == Head(files)
         IN IF env.fate[f] = "proc_fail"
            THEN [acc EXCEPT
                    !.attempted = Append(@, [file |-> f, raised |-> "processing failed"]),
                    !.errors = Append(@, ErrorEntry("Error indexing {file_path}: {e}",
                                                    f, "processing failed"))]
            ELSE LET acc1 == IndexOne(f, None, env, acc)
                     raised == acc1.attempted[Len(acc1.attempted)].raised
                 IN IF raised # ""
                    THEN [acc1 EXCEPT
                            !.errors = Append(@, ErrorEntry("Error indexing {file_path}: {e}",
                                                            f, raised))]
                    ELSE IndexLoopAgentic_break(Tail(files), env,
                            [acc1 EXCEPT !.documents_indexed = @ + 1])

RECURSIVE IndexLoopAgentic(_, _, _)
IndexLoopAgentic(files, env, acc) ==
    IF files = <<>> THEN acc
    ELSE LET f == Head(files)
         IN IF env.fate[f] = "proc_fail"
            THEN IndexLoopAgentic(Tail(files), env,
                    [acc EXCEPT
                       !.attempted = Append(@, [file |-> f, raised |-> "processing failed"]),
                       !.errors = Append(@, ErrorEntry("Error indexing {file_path}: {e}",
                                                       f, "processing failed"))])
            ELSE LET acc1 == IndexOne(f, None, env, acc)
                     raised == acc1.attempted[Len(acc1.attempted)].raised
                 IN IF raised # ""
                    THEN IndexLoopAgentic(Tail(files), env,
                            [acc1 EXCEPT
                               !.errors = Append(@, ErrorEntry("Error indexing {file_path}: {e}",
                                                               f, raised))])
                    ELSE IndexLoopAgentic(Tail(files), env,
                            [acc1 EXCEPT !.documents_indexed = @ + 1])

RECURSIVE SourceLoopAgentic_abort(_, _, _, _)
SourceLoopAgentic_abort(agencies, max_docs, env, acc) ==
    IF agencies = <<>> THEN acc
    ELSE LET agency == Head(agencies)
             acc1 == [acc EXCEPT !.agencies_searched = Append(@, agency)]
             downloaded_files == search_and_download(agency, max_docs, env)
         IN IF downloaded_files = <<>>
            THEN [acc1 EXCEPT !.errors = Append(@, ErrorEntry("{agency}: {msg}", agency,
                                                              "No documents found"))]
            ELSE SourceLoopAgentic_abort(Tail(agencies), max_docs, env,
                    IndexLoopAgentic(downloaded_files, env,
                       [acc1 EXCEPT !.documents_downloaded = @ \o downloaded_files]))

RECURSIVE SourceLoopAgentic(_, _, _, _)
SourceLoopAgentic(agencies, max_docs, env, acc) ==
    IF agencies = <<>> THEN acc
    ELSE LET agency == Head(agencies)
             acc1 == [acc EXCEPT !.agencies_searched = Append(@, agency)]
             downloaded_files == search_and_download(agency, max_docs, env)
         IN IF downloaded_files = <<>>
            THEN SourceLoopAgentic(Tail(agencies), max_docs, env,
                    [acc1 EXCEPT !.errors = Append(@, ErrorEntry("{agency}: {msg}", agency,
                                                                 "No documents found"))])
            ELSE SourceLoopAgentic(Tail(agencies), max_docs, env,
                    IndexLoopAgentic(downloaded_files, env,
                       [acc1 EXCEPT !.documents_downloaded = @ \o downloaded_files]))

\* The pass's final state; its outcome is the fields status, error,
\* agencies_searched, documents_downloaded, documents_indexed, errors and
\* total_vectors_in_index (the 'error' outcome has no errors key).
retrieve_and_index(st, dIndex, dMeta, drug_name, agencies, max_docs, env) ==
    LET requested == IF agencies = AgenciesNone THEN <<"FDA", "EMA">> ELSE agencies
        valid == FilterKnown(requested)
        start == StartPass(st, dIndex, dMeta)
    IN IF valid = <<>>
       THEN [start EXCEPT !.errors = <<>>] @@
            [status |-> "error", error |-> "No valid agencies specified",
             drug_name |-> drug_name, total_vectors_in_index |-> 0]
       ELSE LET acc == SourceLoopAgentic(valid, max_docs, env, start)
            IN acc @@
               [status |-> "success", error |-> "",
                drug_name |-> drug_name,
                total_vectors_in_index |->
                   get_stats([index |-> acc.index, metadata |-> acc.metadata]).total_vectors]

(***************************************************************************)
(* AutonomousOrchestrator._retrieve_and_index                              *)
(***************************************************************************)
RECURSIVE IndexLoopAuto(_, _, _, _)
IndexLoopAuto(files, agency, env, acc) ==
    IF files = <<>> THEN acc
    ELSE LET f == Head(files)
         IN IF env.fate[f] = "proc_fail"
            THEN IndexLoopAuto(Tail(files), agency, env,
                    [acc EXCEPT
                       !.attempted = Append(@, [file |-> f, raised |-> "processing failed"]),
                       !.errors = Append(@, ErrorEntry("Indexing error: {e}",
                                                       "", "processing failed"))])
            ELSE LET acc1 == IndexOne(f, agency, env, acc)
                     raised == acc1.attempted[Len(acc1.attempted)].raised
                 IN IF raised # ""
                    THEN IndexLoopAuto(Tail(files), agency, env,
                            [acc1 EXCEPT
                               !.errors = Append(@, ErrorEntry("Indexing error: {e}",
                                                               "", raised))])
                    ELSE IndexLoopAuto(Tail(files), agency, env,
                            [acc1 EXCEPT !.documents_indexed = @ + 1])

RECURSIVE SourceLoopAuto(_, _, _, _)
SourceLoopAuto(agencies, max_docs, env, acc) ==
    IF agencies = <<>> THEN acc
    ELSE LET agency == Head(agencies)
         IN IF agency \notin KnownAgencies
            THEN SourceLoopAuto(Tail(agencies), max_docs, env,
                    [acc EXCEPT !.errors = Append(@, ErrorEntry("{agency}: {msg}", agency,
                                                                "Scraper not implemented"))])
            ELSE LET acc1 == [acc EXCEPT !.agencies_searched = Append(@, agency)]
                     downloaded_files == search_and_download(agency, max_docs, env)
                 IN IF downloaded_files = <<>>
                    THEN SourceLoopAuto(Tail(agencies), max_docs, env,
                            [acc1 EXCEPT !.errors = Append(@, ErrorEntry("{agency}: {msg}",
                                                             agency, "No documents found"))])
                    ELSE SourceLoopAuto(Tail(agencies), max_docs, env,
                            IndexLoopAuto(downloaded_files, agency, env,
                               [acc1 EXCEPT !.documents_downloaded = @ \o downloaded_files]))

retrieve_and_index_auto(st, dIndex, dMeta, drug_name, agencies, max_docs, env) ==
    LET acc == SourceLoopAuto(agencies, max_docs, env, StartPass(st, dIndex, dMeta))
    IN acc @@ [status |-> "success", error |-> "", drug_name |-> drug_name,
               total_vectors_in_index |-> 0]

(***************************************************************************)
(* Operations on a VectorStoreService instance.                            *)
(***************************************************************************)
Store(id) == [index |-> vsIndex[id], metadata |-> vsMeta[id]]

ctxVars == <<contexts, ingestedFor>>

AddDocumentsCall(id, chunks, dm, failing, save) ==
    /\ Len(vsMeta[id]) + Len(chunks) <= MaxVectors
    /\ faults + Cardinality(failing) + (IF save = "ok" THEN 0 ELSE 1) <= MaxFaults
    /\ LET r == add_documents(Store(id), diskIndex, diskMeta, chunks, dm, failing, save)
       IN /\ faults' = faults + Cardinality(failing)
                          + (IF r.raised = "save failed" THEN 1 ELSE 0)
          /\ vsIndex' = [vsIndex EXCEPT ![id] = r.index]
          /\ vsMeta' = [vsMeta EXCEPT ![id] = r.metadata]
          /\ diskIndex' = r.diskIndex
          /\ diskMeta' = r.diskMeta
          /\ ret' = Call("add_documents", id, dm.file_path, r.raised = "")
          /\ out' = [raised |-> r.raised, chunks |-> chunks, failing |-> failing]
    /\ UNCHANGED ctxVars

SearchCall(id, q, k, embedOk) ==
    /\ LET r == search(Store(id), q, k, embedOk)
       IN /\ ret' = Call("search", id, q, r.raised = "")
          /\ out' = [raised |-> r.raised, results |-> r.results, k |-> k,
                     embedOk |-> embedOk]
    /\ UNCHANGED <<ctxVars, storeVars>>

GetStats(id) ==
    /\ ret' = Call("get_stats", id, "", TRUE)
    /\ out' = get_stats(Store(id))
    /\ UNCHANGED <<ctxVars, storeVars>>

\* VectorStoreService(): a new instance replaces the old one (a restart).
NewStore(id, readOk) ==
    /\ ~readOk => faults < MaxFaults /\ diskIndex.exists /\ diskMeta.exists
    /\ faults' = IF readOk THEN faults ELSE faults + 1
    /\ LET st == load_index(diskIndex, diskMeta, readOk)
       IN /\ vsIndex' = [vsIndex EXCEPT ![id] = st.index]
          /\ vsMeta' = [vsMeta EXCEPT ![id] = st.metadata]
    /\ ret' = Call("load_index", id, "", readOk)
    /\ out' = NoOutcome
    /\ UNCHANGED <<ctxVars, diskIndex, diskMeta>>

StoreDocs == {"dl/FDA_1.pdf", "dl/FDA_2.pdf", "dl/EMA_1.pdf"}

NextStore ==
    \/ \E d \in StoreDocs, empty \in BOOLEAN :
         \E failing \in SUBSET (1..Len(ChunksOf(d))), save \in SaveOutcomes :
            AddDocumentsCall("orch", IF empty THEN <<>> ELSE ChunksOf(d),
                             process_document(d).metadata, failing, save)
    \/ \E q \in Queries, k \in 1..MaxK, embedOk \in BOOLEAN :
         SearchCall("orch", q, k, embedOk)
    \/ GetStats("orch")
    \/ \E readOk \in BOOLEAN : NewStore("orch", readOk)

SpecStore == Init /\ [][NextStore]_vars

(***************************************************************************)
(* Two orchestrators' stores over the same files.  Calls are interleaved   *)
(* one whole call at a time and nothing fails.                             *)
(***************************************************************************)
Writers == {"orch", "gui"}

NextShared ==
    \/ \E id \in Writers, d \in StoreDocs :
         AddDocumentsCall(id, ChunksOf(d), process_document(d).metadata, {}, "ok")
    \/ \E id \in Writers : NewStore(id, TRUE)

SpecShared == Init /\ [][NextShared]_vars

(***************************************************************************)
(* Answer generation.  capability says what the model provider does during *)
(* the answer: "ok", "embed_fail" (the query's embedding fails) or          *)
(* "chat_fail" (the completion fails).  The text of an answer is not     *)
(* modelled: no decision of the code reads it.                             *)
(***************************************************************************)
Capabilities == {"ok", "embed_fail", "chat_fail"}

AnswerText == "text"

\* RAGService.generate_answer, on the RAG service's own store.
generate_answer(st, query, k, capability) ==
    IF get_stats(st).total_vectors = 0
    THEN [status |-> "no_documents", answer |-> AnswerText]
    ELSE LET r == search(st, query, k, capability # "embed_fail")
         IN IF r.raised # "" THEN [status |-> "error", answer |-> AnswerText]
            ELSE IF r.results = <<>>
                 THEN [status |-> "no_results", answer |-> AnswerText]
            ELSE IF capability = "chat_fail"
                 THEN [status |-> "error", answer |-> AnswerText]
            ELSE [status |-> "success", answer |-> AnswerText]

\* AgenticOrchestrator.query: the answer comes from the RAG service, which
\* searches its own store.
agentic_query(rag, question, k, capability) == generate_answer(rag, question, k, capability)

CapabilityFaults(capability) == IF capability = "ok" THEN 0 ELSE 1

(***************************************************************************)
(* A retrieval pass of AgenticOrchestrator (POST /retrieve-and-index).     *)
(***************************************************************************)
\* The part of a pass's final state that is the caller-visible outcome.
Outcome(r) ==
    [status |-> r.status, error |-> r.error, drug_name |-> r.drug_name,
     agencies_searched |-> r.agencies_searched,
     documents_downloaded |-> r.documents_downloaded,
     documents_indexed |-> r.documents_indexed,
     errors |-> r.errors, attempted |-> r.attempted,
     total_vectors_in_index |-> r.total_vectors_in_index]

RetrieveAndIndexStep(drug, agencies, max_docs, env) ==
    /\ faults + EnvFaults(env) <= MaxFaults
    /\ \E r \in {retrieve_and_index(Store("orch"), diskIndex, diskMeta,
                                    drug, agencies, max_docs, env)} :
          /\ vsIndex' = [vsIndex EXCEPT !["orch"] = r.index]
          /\ vsMeta' = [vsMeta EXCEPT !["orch"] = r.metadata]
          /\ diskIndex' = r.diskIndex
          /\ diskMeta' = r.diskMeta
          /\ faults' = faults + EnvFaults(env)
          /\ ret' = Call("retrieve_and_index", "orch", drug, r.status = "success")
          /\ out' = Outcome(r) @@
                    [requested |-> agencies, max_docs |-> max_docs,
                     listed |-> [a \in KnownAgencies |->
                                   IF env.listing[a].raises THEN -1
                                   ELSE env.listing[a].n],
                     bad |-> {<<d, env.fate[d]>> : d \in {x \in Docs : env.fate[x] # "ok"}},
                     rows_before |-> Len(vsMeta["orch"])]
    /\ UNCHANGED ctxVars

RetrieveAndIndex(drug, agencies, max_docs, env) ==
    /\ Len(vsMeta["orch"]) < MaxPreloaded
    /\ RetrieveAndIndexStep(drug, agencies, max_docs, env)

\* The pass just made is made once more: same drug, same agencies, same
\* limit, the sources listing the same documents and nothing failing.  Only
\* the first pass on an empty index of at most MaxRepeatRows rows is
\* repeated.
RetrieveAgain ==
    /\ ret.op = "retrieve_and_index"
    /\ out.bad = {}
    /\ out.rows_before = 0
    /\ Len(vsMeta["orch"]) <= MaxRepeatRows
    /\ RetrieveAndIndexStep(
          ret.arg, out.requested, out.max_docs,
          Env([a \in KnownAgencies |->
                 [raises |-> out.listed[a] = -1,
                  n |-> IF out.listed[a] = -1 THEN 0 ELSE out.listed[a]]],
              <<>>))

\* The same pass made through AutonomousOrchestrator._retrieve_and_index.
RetrieveAndIndexAuto(drug, agencies, max_docs, env) ==
    /\ Len(vsMeta["orch"]) < MaxPreloaded
    /\ faults + EnvFaults(env) <= MaxFaults
    /\ \E r \in {retrieve_and_index_auto(Store("orch"), diskIndex, diskMeta,
                                         drug, agencies, max_docs, env)} :
          /\ vsIndex' = [vsIndex EXCEPT !["orch"] = r.index]
          /\ vsMeta' = [vsMeta EXCEPT !["orch"] = r.metadata]
          /\ diskIndex' = r.diskIndex
          /\ diskMeta' = r.diskMeta
          /\ faults' = faults + EnvFaults(env)
          /\ ret' = Call("_retrieve_and_index", "orch", drug, r.status = "success")
          /\ out' = Outcome(r) @@
                    [requested |-> agencies, max_docs |-> max_docs,
                     listed |-> [a \in KnownAgencies |->
                                   IF env.listing[a].raises THEN -1
                                   ELSE env.listing[a].n],
                     bad |-> {<<d, env.fate[d]>> : d \in {x \in Docs : env.fate[x] # "ok"}},
                     rows_before |-> Len(vsMeta["orch"])]
    /\ UNCHANGED ctxVars

\* POST /query.  answered_from is the content of the store that the answer
\* was searched in.
Query(question, capability) ==
    /\ faults + CapabilityFaults(capability) <= MaxFaults
    /\ faults' = faults + CapabilityFaults(capability)
    /\ \E r \in {agentic_query(Store("rag"), question, 5, capability)} :
          /\ ret' = Call("query", "rag", question, r.status = "success")
          /\ out' = [status |-> r.status, answered_from |-> Store("rag").metadata]
    /\ UNCHANGED <<ctxVars, vsIndex, vsMeta, diskIndex, diskMeta>>

RequestedAgencies ==
    {AgenciesNone, <<"FDA">>, <<"EMA", "FDA">>, <<"PMDA", "EMA">>, <<"PMDA">>}

MaxDocsChoices == {3, 5}

Requested(agencies) == IF agencies = AgenciesNone THEN <<"FDA", "EMA">> ELSE agencies

NextRetrieve ==
    \/ \E agencies \in RequestedAgencies, max_docs \in MaxDocsChoices :
         \E lf \in ListingsOf("FDA"), le \in ListingsOf("EMA") :
            \E bad \in SUBSET Candidates([FDA |-> lf, EMA |-> le],
                                         Requested(agencies), max_docs) :
               /\ Cardinality(bad) <= MaxFaults - faults
               /\ \E bf \in [bad -> BadFates] :
                     RetrieveAndIndex("Keytruda", agencies, max_docs,
                                      Env([FDA |-> lf, EMA |-> le], bf))
    \/ \E agencies \in RequestedAgencies \ {AgenciesNone} :
         \E lf \in ListingsOf("FDA"), le \in ListingsOf("EMA") :
            \E bad \in SUBSET Candidates([FDA |-> lf, EMA |-> le], agencies, 3) :
               /\ Cardinality(bad) <= MaxFaults - faults
               /\ \E bf \in [bad -> BadFates] :
                     RetrieveAndIndexAuto("Keytruda", agencies, 3,
                                          Env([FDA |-> lf, EMA |-> le], bf))
    \/ GetStats("orch")
    \/ \E q \in Queries : SearchCall("orch", q, MaxK, TRUE)
    \/ \E q \in Queries, capability \in Capabilities : Query(q, capability)
    \/ RetrieveAgain

SpecRetrieve == Init /\ [][NextRetrieve]_vars

(***************************************************************************)
(* ComparativeAnalysisService: grouping of context chunks by agency and    *)
(* the sections of the comparative prompt.  A context is a dict, modelled  *)
(* as a function on the keys it has.                                       *)
(***************************************************************************)
\* str.upper() on the document names of the model.
Upper(s) ==
    CASE s = "FDA_label.pdf" -> "FDA_LABEL.PDF"
      [] s = "fda_review.pdf" -> "FDA_REVIEW.PDF"
      [] s = "EPAR_summary.pdf" -> "EPAR_SUMMARY.PDF"
      [] s = "EMA_FDA_joint.pdf" -> "EMA_FDA_JOINT.PDF"
      [] s = "notes.pdf" -> "NOTES.PDF"
      [] s = "FDA_1.pdf" -> "FDA_1.PDF"
      [] s = "EMA_1.pdf" -> "EMA_1.PDF"
      [] OTHER -> s

\* `token in doc_name` for an upper-cased document name.
Has(doc_name, token) ==
    CASE doc_name \in {"FDA_LABEL.PDF", "FDA_REVIEW.PDF", "FDA_1.PDF"} -> token = "FDA"
      [] doc_name = "EPAR_SUMMARY.PDF" -> token = "EPAR"
      [] doc_name = "EMA_FDA_JOINT.PDF" -> token \in {"EMA", "FDA"}
      [] doc_name = "EMA_1.PDF" -> token = "EMA"
      [] OTHER -> FALSE

\* dict.get(key, default)
Get(context, key, default) ==
    IF key \in DOMAIN context THEN context[key] ELSE default

_extract_agency(context) ==
    IF "agency" \in DOMAIN context THEN context["agency"]
    ELSE LET doc_name == Upper(Get(context, "document", ""))
         IN IF Has(doc_name, "FDA") THEN "FDA"
            ELSE IF Has(doc_name, "EMA") \/ Has(doc_name, "EPAR") \/ Has(doc_name, "CHMP")
                 THEN "EMA"
            ELSE IF Has(doc_name, "HEALTH CANADA") \/ Has(doc_name, "HPFB")
                 THEN "Health Canada"
            ELSE IF Has(doc_name, "TGA") THEN "TGA"
            ELSE IF Has(doc_name, "SWISSMEDIC") THEN "Swissmedic"
            ELSE IF Has(doc_name, "NHRA") THEN "NHRA"
            ELSE "Unknown"

\* The loop of _organize_by_agency: agency_contexts is a dict, a function
\* on the agencies met so far.
RECURSIVE OrganizeLoop(_, _)
OrganizeLoop(chunks, agency_contexts) ==
    IF chunks = <<>> THEN agency_contexts
    ELSE LET agency == _extract_agency(Head(chunks))
             known == IF agency \in DOMAIN agency_contexts THEN agency_contexts
                      ELSE [a \in DOMAIN agency_contexts \cup {agency} |->
                              IF a = agency THEN <<>> ELSE agency_contexts[a]]
         IN OrganizeLoop(Tail(chunks),
                         [known EXCEPT ![agency] = Append(@, Head(chunks))])

_organize_by_agency(chunks) == OrganizeLoop(chunks, <<>>)

\* agency_contexts[agency][:5]
SectionLimit == 5

\* text[:1000]
Truncate(text) == IF text = "LONG" THEN "LONG[:1000]" ELSE text

Section_uncapped(agency, agency_contexts) ==
    IF agency \in DOMAIN agency_contexts
    THEN [heading |-> agency, available |-> TRUE,
          documents |->
             [i \in 1..Len(agency_contexts[agency]) |->
                [n |-> i,
                 doc_name |-> Get(agency_contexts[agency][i], "document", "Unknown"),
                 text |-> Truncate(Get(agency_contexts[agency][i], "text", ""))]]]
    ELSE [heading |-> agency, available |-> FALSE, documents |-> <<>>]

\* One section of the prompt: its heading and either its documents or the
\* line saying that the agency has none.
Section(agency, agency_contexts) ==
    IF agency \in DOMAIN agency_contexts
    THEN [heading |-> agency, available |-> TRUE,
          documents |->
             [i \in 1..Min(SectionLimit, Len(agency_contexts[agency])) |->
                [n |-> i,
                 doc_name |-> Get(agency_contexts[agency][i], "document", "Unknown"),
                 text |-> Truncate(Get(agency_contexts[agency][i], "text", ""))]]]
    ELSE [heading |-> agency, available |-> FALSE, documents |-> <<>>]

\* The prompt, as the question and the sections in the order written.
_build_comparative_prompt(query, agency_contexts, agencies) ==
    [question |-> query,
     sections |-> [i \in 1..Len(agencies) |-> Section(agencies[i], agency_contexts)]]

\* generate_comparative_analysis up to the prompt: the chunks are grouped
\* and the prompt is built from the groups and the requested agencies.
comparative_prompt(query, chunks, agencies) ==
    _build_comparative_prompt(query, _organize_by_agency(chunks), agencies)

\* A chunk as search returns it from the index.
StoredResult ==
    ChunkRecord(0, "f1a", 0, process_document("dl/FDA_1.pdf").metadata) @@
    [distance |-> 0, similarity_score |-> [num |-> 1, den |-> 1]]

\* The context chunks given to the service: with and without an agency, a
\* document name or a text, and as the index returns them.
ContextKinds ==
    {[agency |-> "EMA", document |-> "FDA_label.pdf", text |-> "t1"],
     [document |-> "fda_review.pdf", text |-> "LONG"],
     [document |-> "EPAR_summary.pdf", text |-> "t3"],
     [document |-> "EMA_FDA_joint.pdf"],
     [document |-> "notes.pdf", text |-> "t5"],
     StoredResult}

SectionKinds ==
    {[document |-> "fda_review.pdf", text |-> "LONG"],
     [document |-> "EPAR_summary.pdf", text |-> "t3"]}

ContextLists ==
    UNION {[1..n -> ContextKinds] : n \in 0..MaxMixed}
    \cup UNION {[1..n -> SectionKinds] : n \in SectionLimit..MaxContexts}

AgenciesCompared == {<<"FDA", "EMA">>, <<"EMA", "FDA">>, <<"EMA", "TGA">>, <<"FDA">>}

\* The service is given a list of chunks and the agencies to compare.
InitAggregate ==
    /\ contexts = <<>>
    /\ InitStores
    /\ ingestedFor = [s \in Sessions |-> {}]
    /\ ret = Call("input", "", "q1", FALSE)
    /\ out \in {[contexts |-> chunks, agencies |-> agencies] :
                   chunks \in ContextLists, agencies \in AgenciesCompared}

OrganizeByAgency ==
    /\ ret.op = "input"
    /\ ret' = Call("_organize_by_agency", "", ret.arg, TRUE)
    /\ out' = [contexts |-> out.contexts, agencies |-> out.agencies,
               agency_contexts |-> _organize_by_agency(out.contexts)]
    /\ UNCHANGED <<ctxVars, storeVars>>

BuildComparativePrompt ==
    /\ ret.op = "input"
    /\ ret' = Call("_build_comparative_prompt", "", ret.arg, TRUE)
    /\ out' = [contexts |-> out.contexts, agencies |-> out.agencies,
               agency_contexts |-> _organize_by_agency(out.contexts),
               prompt |-> comparative_prompt(ret.arg, out.contexts, out.agencies)]
    /\ UNCHANGED <<ctxVars, storeVars>>

NextAggregate ==
    \/ OrganizeByAgency
    \/ BuildComparativePrompt

SpecAggregate == InitAggregate /\ [][NextAggregate]_vars

(***************************************************************************)
(* QueryAnalyzer.analyze_query: the intent parsed from the model's reply,  *)
(* or the safe default when the reply cannot be parsed or the call fails.  *)
(***************************************************************************)
DefaultIntent ==
    [clarification_needed |-> TRUE, drug_names |-> <<>>, topics |-> <<>>,
     agencies |-> <<>>, needs_documents |-> FALSE]

analyze_query(reply) == IF reply.parses THEN reply.intent ELSE DefaultIntent

\* AutonomousOrchestrator._generate_comparative_answer, on the orchestrator's
\* store.  A failed completion comes back from the comparative service as
\* an analysis text and is passed on with status success.
generate_comparative_answer(st, query, capability) ==
    LET r == search(st, query, 10, capability # "embed_fail")
    IN IF r.raised # ""
       THEN [status |-> "error", answer |-> AnswerText, agency_contexts |-> <<>>]
       ELSE IF r.results = <<>>
       THEN [status |-> "error", answer |-> AnswerText, agency_contexts |-> <<>>]
       ELSE [status |-> "success", answer |-> AnswerText,
             agency_contexts |-> _organize_by_agency(r.results)]

(***************************************************************************)
(* AutonomousOrchestrator.process_query                                    *)
(***************************************************************************)
RECURSIVE add_documents_to_context(_, _)
add_documents_to_context(c, paths) ==
    IF paths = <<>> THEN c
    ELSE add_documents_to_context(add_document(c, Head(paths)), Tail(paths))

\* Python truthiness of selected_agencies: None and [] are falsy.
AgenciesGiven(agencies) == agencies # AgenciesNone /\ agencies # <<>>

needs_docs_always(analysis, c, drug_name) == TRUE

\* Steps 5: the intent's flag, overridden when the context asks for documents.
needs_docs(analysis, c, drug_name) ==
    analysis.needs_documents \/ needs_new_documents(c, drug_name)

\* Steps 1 to 5 of process_query: the session's context after the intent is
\* applied to it, and whether documents are to be retrieved.  status is
\* "continue" unless the call returns before the decision.
plan_query(cs, session_id, selected_agencies, reply) ==
    LET cs0 == get_context(cs, session_id)
        c1 == IF AgenciesGiven(selected_agencies)
              THEN set_agencies(cs0[session_id], selected_agencies)
              ELSE cs0[session_id]
        cs1 == [cs0 EXCEPT ![session_id] = c1]
        analysis == analyze_query(reply)
        drug_names == IF analysis.drug_names = <<>> /\ ~Falsy(c1.current_drug)
                      THEN <<c1.current_drug>>
                      ELSE analysis.drug_names
        early == [contexts |-> cs1, analysis |-> analysis, drug_name |-> None,
                  agencies_to_use |-> <<>>, retrieve |-> FALSE]
    IN IF "clarification_needed" \notin DOMAIN analysis
       THEN early @@ [status |-> "error"]
       ELSE IF analysis.clarification_needed
       THEN early @@ [status |-> "clarification_needed"]
       ELSE IF drug_names = <<>>
       THEN early @@ [status |-> "error"]
       ELSE LET drug_name == drug_names[1]
                c2 == add_topics(update_drug(c1, drug_name), analysis.topics)
            IN [status |-> "continue",
                contexts |-> [cs1 EXCEPT ![session_id] = c2],
                analysis |-> analysis,
                drug_name |-> drug_name,
                agencies_to_use |-> IF analysis.agencies = <<>> THEN c2.agencies
                                    ELSE analysis.agencies,
                retrieve |-> needs_docs(analysis, c2, drug_name)]

\* Steps 7 and 8: the answer, by comparison when several agencies are in
\* use, and the query's entry in the session's history.  r is the outcome
\* of step 6.
answer_and_record(plan, r, rag, query, session_id, capability) ==
    LET c3 == add_documents_to_context(plan.contexts[session_id],
                                       r.documents_downloaded)
        answer_result == IF Len(plan.agencies_to_use) > 1
                         THEN generate_comparative_answer(
                                 [index |-> r.index, metadata |-> r.metadata],
                                 query, capability)
                         ELSE generate_answer(rag, query, 5, capability) @@
                              [agency_contexts |-> <<>>]
    IN [contexts |-> [plan.contexts EXCEPT ![session_id] =
                         add_query(c3, query, answer_result.answer)],
        index |-> r.index, metadata |-> r.metadata,
        diskIndex |-> r.diskIndex, diskMeta |-> r.diskMeta,
        status |-> answer_result.status, names |-> plan.analysis.drug_names,
        needs_documents |-> plan.analysis.needs_documents,
        decided |-> TRUE, drug_name |-> plan.drug_name,
        retrieved |-> plan.retrieve,
        agencies_to_use |-> plan.agencies_to_use,
        agencies_searched |-> r.agencies_searched,
        documents_downloaded |-> r.documents_downloaded,
        documents_indexed |-> r.documents_indexed,
        errors |-> r.errors,
        agency_contexts |-> answer_result.agency_contexts]

\* Step 6 onwards: the retrieval pass when the plan asks for one.
execute_plan(plan, st, rag, dIndex, dMeta, query, session_id, env, capability) ==
    IF plan.status # "continue"
    THEN [contexts |-> plan.contexts, index |-> st.index, metadata |-> st.metadata,
          diskIndex |-> dIndex, diskMeta |-> dMeta,
          status |-> plan.status, names |-> plan.analysis.drug_names,
          needs_documents |-> plan.analysis.needs_documents,
          decided |-> FALSE, drug_name |-> None, retrieved |-> FALSE,
          agencies_to_use |-> <<>>, agencies_searched |-> <<>>,
          documents_downloaded |-> <<>>, documents_indexed |-> 0,
          errors |-> <<>>, agency_contexts |-> <<>>]
    ELSE answer_and_record(
            plan,
            IF plan.retrieve
            THEN retrieve_and_index_auto(st, dIndex, dMeta, plan.drug_name,
                                         plan.agencies_to_use, 3, env)
            ELSE StartPass(st, dIndex, dMeta),
            rag, query, session_id, capability)

process_query(cs, st, rag, dIndex, dMeta, query, session_id, selected_agencies, reply, env, capability) ==
    execute_plan(plan_query(cs, session_id, selected_agencies, reply),
                 st, rag, dIndex, dMeta, query, session_id, env, capability)

(***************************************************************************)
(* A user query to AutonomousOrchestrator, and a reset of its session.     *)
(***************************************************************************)
\* The subjects a query names.
QueryNames == {"Keytruda", "keytruda", "Humira"}

\* The intents the analyzer extracts.
Intents ==
    {DefaultIntent} \cup
    [clarification_needed : {FALSE},
     drug_names : {<<>>} \cup {<<n>> : n \in QueryNames},
     topics : {<<"safety">>},
     agencies : {<<>>, <<"FDA">>},
     needs_documents : BOOLEAN]

\* A reply that is valid JSON without the clarification_needed key.
IncompleteIntent ==
    [drug_names |-> <<"Keytruda">>, topics |-> <<"safety">>,
     agencies |-> <<>>, needs_documents |-> FALSE]

\* The replies of the model provider: none or not JSON (parses = FALSE), or
\* a JSON object, which analyze_query returns as it is.
Replies ==
    {[parses |-> FALSE, intent |-> DefaultIntent]} \cup
    {[parses |-> TRUE, intent |-> i] : i \in Intents \cup {IncompleteIntent}}

ReplyKind(reply) ==
    IF ~reply.parses THEN "failed"
    ELSE IF "clarification_needed" \notin DOMAIN reply.intent THEN "incomplete"
    ELSE "intent"

\* The queries of the model leave the choice of agencies to the session.
SelectedAgencies == {AgenciesNone}

\* During a query each source lists no document or the first of its catalogue.
QueryListings == {[raises |-> FALSE, n |-> 0], [raises |-> FALSE, n |-> 1]}

\* The ways a document of a query's retrieval pass fails.
QueryFates == {"proc_fail"}

CalmEnv == Env([FDA |-> [raises |-> FALSE, n |-> 0], EMA |-> [raises |-> FALSE, n |-> 0]],
               <<>>)

ProcessQuery(query, session_id, selected_agencies, reply, env, capability) ==
    /\ Len(vsMeta["orch"]) <= MaxQueryRows
    /\ session_id \in DOMAIN contexts =>
          Len(contexts[session_id].query_history) <= MaxQueries
    /\ faults + EnvFaults(env) + CapabilityFaults(capability) <= MaxFaults
    /\ \E r \in {process_query(contexts, Store("orch"), Store("rag"), diskIndex,
                               diskMeta, query, session_id, selected_agencies,
                               reply, env, capability)} :
          /\ contexts' = r.contexts
          /\ vsIndex' = [vsIndex EXCEPT !["orch"] = r.index]
          /\ vsMeta' = [vsMeta EXCEPT !["orch"] = r.metadata]
          /\ diskIndex' = r.diskIndex
          /\ diskMeta' = r.diskMeta
          /\ faults' = faults + EnvFaults(env) + CapabilityFaults(capability)
          /\ ingestedFor' =
                IF r.retrieved /\ r.documents_indexed >= 1
                THEN [ingestedFor EXCEPT ![session_id] = @ \cup {Lower(r.drug_name)}]
                ELSE ingestedFor
          /\ ret' = Call("process_query", session_id, query, r.status = "success")
          /\ out' = [status |-> r.status, names |-> r.names,
                     needs_documents |-> r.needs_documents,
                     decided |-> r.decided, drug_name |-> r.drug_name,
                     retrieved |-> r.retrieved,
                     agencies_searched |-> r.agencies_searched,
                     documents_indexed |-> r.documents_indexed,
                     agency_contexts |-> r.agency_contexts,
                     reply_kind |-> ReplyKind(reply)]

QuerySessions == {"s1"}

\* The environment is drawn only where the call consults it: the sources
\* when a retrieval pass runs, the model provider when an answer is made.
NextQuery ==
    \/ \E session_id \in QuerySessions, selected_agencies \in SelectedAgencies,
          reply \in Replies :
         \E plan \in {plan_query(contexts, session_id, selected_agencies, reply)} :
            \E capability \in IF plan.status = "continue" THEN {"ok", "embed_fail"}
                               ELSE {"ok"},
               lf \in IF plan.retrieve THEN QueryListings ELSE {CalmEnv.listing["FDA"]},
               le \in IF plan.retrieve THEN QueryListings ELSE {CalmEnv.listing["EMA"]} :
               \E bad \in SUBSET Candidates([FDA |-> lf, EMA |-> le],
                                            plan.agencies_to_use, 3) :
                  /\ Cardinality(bad) <= MaxFaults - faults
                  /\ \E bf \in [bad -> QueryFates] :
                        ProcessQuery("q1", session_id, selected_agencies, reply,
                                     Env([FDA |-> lf, EMA |-> le], bf), capability)
    \/ \E session_id \in QuerySessions : ResetContext(session_id)

SpecQuery == Init /\ [][NextQuery]_vars

(***************************************************************************)
(* Claims about the session context (checked under SpecCtx).               *)
(***************************************************************************)
\* The context the last call was made on.
RetCtx == contexts[ret.sid]

\* C1: needs_new_documents(candidate) returns true exactly when no current
\* subject is set (the code's test is `not self.current_drug`, so the empty
\* name counts as not set), or the candidate differs from the current
\* subject compared case-insensitively, or the ingested-document list is
\* empty; in every other case it returns false.
C1_NeedsNewDocumentsIff ==
    ret.op = "needs_new_documents" =>
        ret.val = (\/ Falsy(RetCtx.current_drug)
                   \/ Lower(RetCtx.current_drug) # Lower(ret.arg)
                   \/ RetCtx.documents_indexed = <<>>)

\* A call that returned false for a candidate spelled differently from the
\* stored subject.
C1_Witness ==
    /\ ret.op = "needs_new_documents"
    /\ ret.val = FALSE
    /\ ret.arg # RetCtx.current_drug

\* C4: needs_new_documents(S) is true on a brand-new session; after
\* update_drug(S) followed by add_document(d) it is false for S; and after a
\* following update_drug(T), T a different name, it is true again for T.
C4_Step ==
    LET s == ret'.sid
    IN /\ (ret'.op = "get_context" /\ ret'.val) =>
              \A n \in Names : needs_new_documents(contexts'[s], n)
       /\ (ret'.op = "add_document" /\ ~Falsy(contexts[s].current_drug)) =>
              ~needs_new_documents(contexts'[s], contexts[s].current_drug)
       /\ (/\ ret'.op = "update_drug"
           /\ ret'.val
           /\ ~Falsy(contexts[s].current_drug)
           /\ Lower(contexts[s].current_drug) # Lower(ret'.arg)
           /\ contexts[s].documents_indexed # <<>>) =>
              needs_new_documents(contexts'[s], ret'.arg)

C4_NewFalseTrueAgain == [][C4_Step]_vars

(***************************************************************************)
(* Claims about the vector store (checked under SpecStore).                *)
(***************************************************************************)
\* Number of records in the persisted metadata file (none when no file).
PersistedRecords == Len(diskMeta.data)

\* C5: after any sequence of add_documents calls (successful, partially
\* failing or raising) get_stats().total_vectors equals the number of
\* records in the persisted metadata file, and every result of search
\* refers to a handle in [0, total_vectors).
C5_StatsMatchPersisted ==
    /\ ret.op = "add_documents" =>
          get_stats(Store(ret.sid)).total_vectors = PersistedRecords
    /\ ret.op = "search" =>
          \A i \in 1..Len(out.results) :
             /\ out.results[i].chunk_id >= 0
             /\ out.results[i].chunk_id < get_stats(Store(ret.sid)).total_vectors

\* C6: in every reachable state of a store the number of stored vectors
\* equals the number of metadata records, and the record at position i has
\* chunk_id = i and describes the fragment whose embedding is row i.
C6_LockStep ==
    /\ Len(vsIndex["orch"]) = Len(vsMeta["orch"])
    /\ \A i \in 1..Len(vsMeta["orch"]) :
          /\ vsMeta["orch"][i].chunk_id = i - 1
          /\ i <= Len(vsIndex["orch"]) =>
                vsIndex["orch"][i] = Embed(vsMeta["orch"][i].chunk_text)

\* The positions of the batch whose embedding succeeded, and the j-th of them.
Embedded(chunks, failing) == (1..Len(chunks)) \ failing

NthEmbedded(chunks, failing, j) ==
    CHOOSE p \in Embedded(chunks, failing) :
        Cardinality({q \in Embedded(chunks, failing) : q <= p}) = j

\* The store holds what it held before the step plus exactly the fragments
\* of the batch that embedded, in input order.
StoredExactly(id, chunks, failing, dm) ==
    LET n == Cardinality(Embedded(chunks, failing))
        n0 == Len(vsMeta[id])
    IN /\ vsMeta'[id] = vsMeta[id] \o
             [j \in 1..n |->
                ChunkRecord(n0 + j - 1, chunks[NthEmbedded(chunks, failing, j)],
                            NthEmbedded(chunks, failing, j) - 1, dm)]
       /\ vsIndex'[id] = vsIndex[id] \o
             [j \in 1..n |-> Embed(chunks[NthEmbedded(chunks, failing, j)])]

\* C7 as stated: add_documents on a non-empty list in which at least one
\* fragment embeds returns normally and stores exactly the fragments that
\* embedded, in input order; it fails only when no fragment embeds.
C7_FailsOnlyWhenNoneEmbeds ==
    [][(ret'.op = "add_documents" /\ out'.chunks # <<>>) =>
          LET dm == process_document(ret'.arg).metadata
          IN /\ Embedded(out'.chunks, out'.failing) # {} =>
                   /\ ret'.val
                   /\ StoredExactly(ret'.sid, out'.chunks, out'.failing, dm)
             /\ ~ret'.val => Embedded(out'.chunks, out'.failing) = {}]_vars

\* C7 amended: the store is extended by exactly the fragments that embedded,
\* in input order; the call returns normally when at least one fragment
\* embedded and the store was persisted, and raises only when no fragment
\* embedded or persisting failed.
C7_StoresEmbeddedInOrder ==
    [][(ret'.op = "add_documents" /\ out'.chunks # <<>>) =>
          LET dm == process_document(ret'.arg).metadata
          IN /\ StoredExactly(ret'.sid, out'.chunks, out'.failing, dm)
             /\ (Embedded(out'.chunks, out'.failing) # {}
                    /\ out'.raised # "save failed") => ret'.val
             /\ ~ret'.val => \/ Embedded(out'.chunks, out'.failing) = {}
                             \/ out'.raised = "save failed"
             /\ Embedded(out'.chunks, out'.failing) = {} => ~ret'.val]_vars

\* A batch whose first fragment failed and whose later fragment was stored.
C7_Witness ==
    /\ ret.op = "add_documents"
    /\ ret.val
    /\ 1 \in out.failing
    /\ Embedded(out.chunks, out.failing) # {}
    /\ vsMeta[ret.sid][Len(vsMeta[ret.sid])].chunk_index > 0

(***************************************************************************)
(* Claims about a retrieval pass (checked under SpecRetrieve).             *)
(***************************************************************************)
IsPass == ret.op \in {"retrieve_and_index", "_retrieve_and_index"}

\* The known sources among the requested ones, in the caller's order.
KnownRequested == SelectSeq(Requested(out.requested), LAMBDA a : a \in KnownAgencies)

AttemptedFiles == [i \in 1..Len(out.attempted) |-> out.attempted[i].file]

\* C8: whatever fails (a listing or download raising or returning nothing,
\* a document's processing raising, add_documents raising), a pass over a
\* request with at least one known source returns an outcome with status
\* 'success', has contacted every known requested source in the caller's
\* order, and has attempted every downloaded document of every source.
C8_EverySourceEveryDocument ==
    (IsPass /\ KnownRequested # <<>>) =>
        /\ out.status = "success"
        /\ out.agencies_searched = KnownRequested
        /\ AttemptedFiles = out.documents_downloaded

\* A pass in which a document failed and a later one was indexed, and in
\* which a source found nothing and a later one was searched.
C8_Witness ==
    /\ IsPass
    /\ \E i, j \in 1..Len(out.attempted) :
          i < j /\ out.attempted[i].raised # "" /\ out.attempted[j].raised = ""
    /\ Len(out.errors) >= 2
    /\ Len(out.agencies_searched) = 2
    /\ out.errors[1].msg = "No documents found"

\* C9: if exactly 1 of the 5 candidate documents of a source fails to
\* download and the other 4 are processed and ingested, the outcome has
\* status = success, documents_indexed = 4 and exactly 1 error entry.
C9_OneOfFiveFails ==
    (/\ ret.op = "retrieve_and_index"
     /\ out.requested = <<"FDA">>
     /\ out.max_docs = 5
     /\ out.listed["FDA"] = 5
     /\ Cardinality(out.bad) = 1
     /\ \A b \in out.bad : b[2] = "dl_fail"
     /\ Len(out.attempted) = 4
     /\ \A i \in 1..Len(out.attempted) : out.attempted[i].raised = "")
    => /\ out.status = "success"
       /\ out.documents_indexed = 4
       /\ Len(out.errors) = 1

RECURSIVE SumChunks(_)
SumChunks(files) ==
    IF files = <<>> THEN 0 ELSE Len(ChunksOf(Head(files))) + SumChunks(Tail(files))

NoDocumentsEntries(agency) ==
    Cardinality({i \in 1..Len(out.errors) :
                    out.errors[i] = ErrorEntry("{agency}: {msg}", agency,
                                               "No documents found")})

DownloadedFrom(agency) ==
    SelectSeq(out.documents_downloaded, LAMBDA f : f \in SeqToSet(Catalog(agency)))

EveryEmbeddingSucceeds ==
    \A b \in out.bad : b[2] \notin {"embed_none", "embed_partial"}

EmptySourcesReported ==
    \A a \in SeqToSet(KnownRequested) :
        NoDocumentsEntries(a) = IF DownloadedFrom(a) = <<>> THEN 1 ELSE 0

\* C10 as stated: on an empty index with every embedding succeeding,
\* documents_indexed equals the number of downloaded documents, each source
\* that yields no documents contributes exactly one 'No documents found'
\* entry, and the index holds the sum of the fragment counts of the
\* downloaded documents.
C10_CountsAllDownloaded ==
    (ret.op = "retrieve_and_index" /\ out.status = "success"
       /\ out.rows_before = 0 /\ EveryEmbeddingSucceeds) =>
        /\ out.documents_indexed = Len(out.documents_downloaded)
        /\ EmptySourcesReported
        /\ out.total_vectors_in_index = SumChunks(out.documents_downloaded)

\* The downloaded documents whose processing did not raise / whose
\* processing and add_documents call did not raise.
ProcessedFiles ==
    SelectSeq(out.documents_downloaded,
              LAMBDA f : \E i \in 1..Len(out.attempted) :
                            /\ out.attempted[i].file = f
                            /\ out.attempted[i].raised # "processing failed")

IngestedFiles ==
    SelectSeq(out.documents_downloaded,
              LAMBDA f : \E i \in 1..Len(out.attempted) :
                            /\ out.attempted[i].file = f
                            /\ out.attempted[i].raised = "")

\* C10 amended: documents_indexed counts the downloaded documents whose
\* processing and add_documents call did not raise, and the index holds the
\* fragments of the downloaded documents whose processing did not raise.
C10_CountsIngested ==
    (ret.op = "retrieve_and_index" /\ out.status = "success"
       /\ out.rows_before = 0 /\ EveryEmbeddingSucceeds) =>
        /\ out.documents_indexed = Len(IngestedFiles)
        /\ EmptySourcesReported
        /\ out.total_vectors_in_index = SumChunks(ProcessedFiles)
        /\ Len(vsMeta["orch"]) = out.total_vectors_in_index

\* The scenario: one source yields 2 documents with 6 fragments together,
\* the other none.
C10_Witness ==
    /\ ret.op = "retrieve_and_index"
    /\ out.agencies_searched = <<"EMA", "FDA">>
    /\ out.documents_downloaded = <<"dl/EMA_1.pdf", "dl/EMA_2.pdf">>
    /\ out.documents_indexed = 2
    /\ out.errors = <<ErrorEntry("{agency}: {msg}", "FDA", "No documents found")>>
    /\ out.total_vectors_in_index = 6

(***************************************************************************)
(* Claims about a user query (checked under SpecQuery).                    *)
(***************************************************************************)
\* The step is a process_query that reached the retrieval decision.
QueryDecided == ret'.op = "process_query" /\ out'.decided

\* The orchestrator's store and its two files are as they were.
IndexUntouched ==
    /\ vsIndex' = vsIndex
    /\ vsMeta' = vsMeta
    /\ diskIndex' = diskIndex
    /\ diskMeta' = diskMeta

\* needs_new_documents(subject) on the session at the point of the decision:
\* the context exists and its subject has been updated to the query's.
GateAtDecision ==
    LET cs == get_context(contexts, ret'.sid)
    IN needs_new_documents(update_drug(cs[ret'.sid], out'.drug_name), out'.drug_name)

\* C2 (as stated): process_query starts a retrieval pass only if
\* needs_new_documents(subject) is true at that point; when it is false no
\* source is contacted and the index is not modified, whatever the intent.
C2_RetrievesOnlyIfGate ==
    [][QueryDecided =>
          /\ out'.retrieved => GateAtDecision
          /\ ~GateAtDecision => (out'.agencies_searched = <<>> /\ IndexUntouched)]_vars

\* C2 (amended): process_query starts a retrieval pass only if
\* needs_new_documents(subject) is true at that point or the intent's
\* needs_documents is true; when both are false, and when the call returns
\* before the decision, no source is contacted and the index is not modified.
C2_RetrievesOnlyIfGateOrIntent ==
    [][ret'.op = "process_query" =>
          /\ out'.retrieved => (out'.decided /\ (GateAtDecision \/ out'.needs_documents))
          /\ (out'.decided /\ ~GateAtDecision /\ ~out'.needs_documents) =>
                (~out'.retrieved /\ out'.agencies_searched = <<>> /\ IndexUntouched)
          /\ ~out'.decided =>
                (~out'.retrieved /\ out'.agencies_searched = <<>> /\ IndexUntouched)]_vars

\* A query about another subject answered from the documents of the session,
\* with no retrieval pass: the predicate and the intent's flag were both false.
C2_Witness ==
    /\ ret.op = "process_query"
    /\ out.decided
    /\ out.drug_name = "Humira"
    /\ ~out.needs_documents
    /\ ~out.retrieved
    /\ contexts[ret.sid].documents_indexed # <<>>
    /\ vsMeta["orch"] # <<>>

\* The query follows an ingestion on its session for the subject it names,
\* or names no subject after an ingestion on its session.
FollowUp ==
    /\ ingestedFor[ret'.sid] # {}
    /\ \/ out'.names = <<>>
       \/ Lower(out'.names[1]) \in ingestedFor[ret'.sid]

\* C3 (as stated): after a process_query of a session ingested a document
\* for subject S, a later process_query of the session whose intent names S
\* or no subject, with needs_documents = false, performs no retrieval.
C3_FollowUpNeverRetrieves ==
    [][(ret'.op = "process_query" /\ FollowUp /\ ~out'.needs_documents) =>
          (~out'.retrieved /\ out'.agencies_searched = <<>> /\ IndexUntouched)]_vars

\* C3 (amended): the same, for a session that has not been reset since the
\* ingestion (its list of ingested documents is not empty).
C3_FollowUpReusesDocuments ==
    [][(/\ ret'.op = "process_query"
        /\ FollowUp
        /\ ~out'.needs_documents
        /\ ret'.sid \in DOMAIN contexts
        /\ contexts[ret'.sid].documents_indexed # <<>>) =>
          (~out'.retrieved /\ out'.agencies_searched = <<>> /\ IndexUntouched)]_vars

\* A follow-up naming the ingested subject in another spelling was answered
\* without a retrieval pass.
C3_Witness ==
    /\ ret.op = "process_query"
    /\ out.decided
    /\ out.names = <<"keytruda">>
    /\ "keytruda" \in ingestedFor[ret.sid]
    /\ ~out.needs_documents
    /\ ~out.retrieved
    /\ Len(contexts[ret.sid].query_history) = 2

(***************************************************************************)
(* Provenance of the fragments handed to the comparative analysis          *)
(***************************************************************************)
\* The source a stored fragment was ingested from: the one whose listing
\* holds the fragment's file.
IngestedFrom(context) ==
    CHOOSE a \in KnownAgencies : InSeq(context.file_path, Catalog(a))

\* C11: every fragment that a query's comparison groups under a source was
\* ingested from that source; none is grouped under another source or
\* under 'Unknown'.
C11_GroupedUnderSource ==
    ret.op = "process_query" =>
       \A agency \in DOMAIN out.agency_contexts :
          \A i \in 1..Len(out.agency_contexts[agency]) :
             IngestedFrom(out.agency_contexts[agency][i]) = agency

(***************************************************************************)
(* Retrieval followed by a query in the same process                       *)
(***************************************************************************)
\* C12: a query that follows a retrieval pass which reported
\* documents_indexed >= 1 is answered from a store holding the same
\* fragments as the store the pass wrote to.
C12_QueryAfterRetrievalSeesFragments ==
    [][(/\ ret.op \in {"retrieve_and_index", "_retrieve_and_index"}
        /\ out.documents_indexed >= 1
        /\ ret'.op = "query")
       => out'.answered_from = vsMeta'["orch"]]_vars

(***************************************************************************)
(* The same retrieval pass made twice                                      *)
(***************************************************************************)
\* A stored row as the fragment it holds: its document and its place in it.
Fragment(row) == <<row.file_path, row.chunk_index, row.chunk_text>>

Fragments(metadata) == {Fragment(metadata[i]) : i \in 1..Len(metadata)}

SamePassAgain ==
    /\ ret.op = "retrieve_and_index" /\ ret'.op = "retrieve_and_index"
    /\ ret'.arg = ret.arg
    /\ out'.requested = out.requested /\ out'.max_docs = out.max_docs
    /\ out'.listed = out.listed
    /\ out.bad = {} /\ out'.bad = {}

\* C13: making the same retrieval pass a second time, the sources returning
\* the same documents, leaves the index with the same set and the same
\* number of fragments as making it once.
C13_SecondPassChangesNothing ==
    [][SamePassAgain =>
          /\ Fragments(vsMeta'["orch"]) = Fragments(vsMeta["orch"])
          /\ Len(vsMeta'["orch"]) = Len(vsMeta["orch"])
          /\ Len(vsIndex'["orch"]) = Len(vsIndex["orch"])]_vars

(***************************************************************************)
(* A query that ends in error                                              *)
(***************************************************************************)
\* What a session remembers: its drug, topics, documents and queries.  A
\* session not yet met remembers what a new context does.
Remembered(cs, session_id) ==
    LET c == IF session_id \in DOMAIN cs THEN cs[session_id] ELSE NewContext
    IN <<c.current_drug, c.topics, c.documents_indexed, c.query_history>>

\* C14: a process_query call that ends with status 'error' leaves the
\* session's drug, topics, ingested documents and query log as they were
\* before the call.
C14_ErrorLeavesContext ==
    [][(ret'.op = "process_query" /\ out'.status = "error")
       => Remembered(contexts', ret'.sid) = Remembered(contexts, ret'.sid)]_vars

(***************************************************************************)
(* Loading and reloading the persisted store                               *)
(***************************************************************************)
PersistedMismatch ==
    /\ diskIndex.exists /\ diskMeta.exists
    /\ Len(diskIndex.data) # Len(diskMeta.data)

\* C15: a store constructed over persisted files whose vector count and
\* metadata count differ starts empty: 0 vectors and 0 records.
C15_MismatchStartsEmpty ==
    (ret.op = "load_index" /\ PersistedMismatch)
       => vsIndex[ret.sid] = <<>> /\ vsMeta[ret.sid] = <<>>

StoreAfter(id) == [index |-> vsIndex'[id], metadata |-> vsMeta'[id]]

\* C16: a store constructed from the files persisted by a successful
\* add_documents call holds the same vectors and the same metadata records,
\* in the same order, as the store that made the call, and every search
\* returns the same ranking from it.
C16_ReloadRoundTrip ==
    [][(/\ ret.op = "add_documents" /\ ret.val
        /\ ret'.op = "load_index" /\ ret'.val /\ ret'.sid = ret.sid)
       => /\ vsIndex'[ret.sid] = vsIndex[ret.sid]
          /\ vsMeta'[ret.sid] = vsMeta[ret.sid]
          /\ \A q \in Queries, k \in 1..MaxK :
                search(StoreAfter(ret.sid), q, k, TRUE)
                   = search(Store(ret.sid), q, k, TRUE)]_vars

\* A store of two or more fragments has been loaded from the files.
C16_Witness ==
    /\ ret.op = "load_index" /\ ret.val
    /\ Len(vsMeta[ret.sid]) >= 2
    /\ Len(vsIndex[ret.sid]) = Len(vsMeta[ret.sid])
    /\ diskMeta.data = json_dump(vsMeta[ret.sid]) /\ diskIndex.data = vsIndex[ret.sid]

(***************************************************************************)
(* Interleaved writers of the persisted store                              *)
(***************************************************************************)
PersistedFragments(dMeta) == Fragments(json_load(dMeta.data))

\* C17: when add_documents calls of stores sharing the persisted files are
\* interleaved, every persisted snapshot has as many vectors in the index
\* file as records in the metadata file, and a fragment once persisted by a
\* successful call stays persisted.
C17_InterleavedWritersKeepAll ==
    [][(ret'.op = "add_documents" /\ ret'.val)
       => /\ Len(diskIndex'.data) = Len(diskMeta'.data)
          /\ PersistedFragments(diskMeta) \subseteq PersistedFragments(diskMeta')]_vars

(***************************************************************************)
(* Unknown agencies in a retrieval request                                 *)
(***************************************************************************)
KnownOf(o) == SelectSeq(Requested(o.requested), LAMBDA a : a \in KnownAgencies)

HasUnknown(o) ==
    \E i \in 1..Len(Requested(o.requested)) :
       Requested(o.requested)[i] \notin KnownAgencies

\* C18: a retrieval pass, of either orchestrator, whose request holds
\* unknown agencies returns an outcome, searches the known requested
\* agencies only, and when none is known returns status 'error' with no
\* agency searched, documents_indexed = 0 and the index as it was.
C18_UnknownDropped ==
    [][(ret'.op \in {"retrieve_and_index", "_retrieve_and_index"} /\ HasUnknown(out'))
       => /\ out'.agencies_searched = KnownOf(out')
          /\ KnownOf(out') = <<>> =>
                /\ out'.status = "error"
                /\ out'.agencies_searched = <<>>
                /\ out'.documents_indexed = 0
                /\ UNCHANGED <<vsIndex, vsMeta, diskIndex, diskMeta>>]_vars

(***************************************************************************)
(* Grouping by agency and the comparative prompt                           *)
(***************************************************************************)
\* The name of the document a chunk comes from, under whichever key the
\* chunk carries it.
DocumentIdentifier(context) ==
    IF "document" \in DOMAIN context THEN context["document"]
    ELSE IF "source_document" \in DOMAIN context THEN context["source_document"]
    ELSE ""

\* The agencies in the order their tokens are looked for, with their tokens.
AgencyTokens ==
    <<[agency |-> "FDA", tokens |-> {"FDA"}],
      [agency |-> "EMA", tokens |-> {"EMA", "EPAR", "CHMP"}],
      [agency |-> "Health Canada", tokens |-> {"HEALTH CANADA", "HPFB"}],
      [agency |-> "TGA", tokens |-> {"TGA"}],
      [agency |-> "Swissmedic", tokens |-> {"SWISSMEDIC"}],
      [agency |-> "NHRA", tokens |-> {"NHRA"}]>>

Matches(context) ==
    {i \in 1..Len(AgencyTokens) :
        \E t \in AgencyTokens[i].tokens : Has(Upper(DocumentIdentifier(context)), t)}

\* The agency of a chunk by its own data.
OwnAgency(context) ==
    IF "agency" \in DOMAIN context THEN context["agency"]
    ELSE IF Matches(context) = {} THEN "Unknown"
    ELSE AgencyTokens[CHOOSE i \in Matches(context) :
                         \A j \in Matches(context) : i <= j].agency

Swap(seq, i) ==
    [j \in 1..Len(seq) |-> IF j = i THEN seq[i + 1]
                            ELSE IF j = i + 1 THEN seq[i] ELSE seq[j]]

Count(seq, x) == Cardinality({i \in 1..Len(seq) : seq[i] = x})

SameMembers(s1, s2) ==
    /\ Len(s1) = Len(s2)
    /\ \A i \in 1..Len(s1) : Count(s1, s1[i]) = Count(s2, s1[i])

\* C19: _organize_by_agency partitions its input.  The groups are those of
\* the chunks' own agencies (the explicit agency if the chunk has one, else
\* the first agency with a token in the chunk's document identifier, else
\* 'Unknown'); a group lists its chunks, each once, in input order; and
\* exchanging two neighbours of the input changes no group's members.
C19_PartitionByOwnData ==
    ret.op = "_organize_by_agency" =>
       LET chunks == out.contexts
           groups == out.agency_contexts
       IN /\ DOMAIN groups = {OwnAgency(chunks[i]) : i \in 1..Len(chunks)}
          /\ \A a \in DOMAIN groups :
                groups[a] = SelectSeq(chunks, LAMBDA c : OwnAgency(c) = a)
          /\ \A i \in 1..(Len(chunks) - 1) :
                LET swapped == _organize_by_agency(Swap(chunks, i))
                IN /\ DOMAIN swapped = DOMAIN groups
                   /\ \A a \in DOMAIN groups : SameMembers(swapped[a], groups[a])

\* The group of an agency, empty when no chunk is grouped under it.
GroupOf(groups, agency) ==
    IF agency \in DOMAIN groups THEN groups[agency] ELSE <<>>

\* C20: the prompt has one section for each requested agency, in the order
\* of the request; the section of an agency without chunks says that none
\* is available, and any other section shows the first five chunks of the
\* agency's group, or all when the group has fewer, in the group's order.
C20_SectionPerRequestedAgency ==
    ret.op = "_build_comparative_prompt" =>
       LET sections == out.prompt.sections
       IN /\ Len(sections) = Len(out.agencies)
          /\ \A i \in 1..Len(out.agencies) :
                LET group == GroupOf(out.agency_contexts, out.agencies[i])
                    shown == sections[i].documents
                IN /\ sections[i].heading = out.agencies[i]
                   /\ sections[i].available = (group # <<>>)
                   /\ Len(shown) = Min(5, Len(group))
                   /\ \A j \in 1..Len(shown) :
                         /\ shown[j].n = j
                         /\ shown[j].doc_name = Get(group[j], "document", "Unknown")

\* A prompt whose request names first an agency without chunks and then one
\* with more than five, the first chunk of the input belonging to the latter.
C20_Witness ==
    /\ ret.op = "_build_comparative_prompt"
    /\ Len(out.agencies) = 2
    /\ GroupOf(out.agency_contexts, out.agencies[1]) = <<>>
    /\ Len(GroupOf(out.agency_contexts, out.agencies[2])) > 5
    /\ Len(out.prompt.sections[2].documents) = 5

(***************************************************************************)
(* The session context: drug changes, documents, reset, sessions apart     *)
(***************************************************************************)
\* The sessions that have a context before and after a step.
Kept == DOMAIN contexts \cap DOMAIN contexts'

C21_Step ==
    /\ ret'.op = "update_drug" =>
          LET before == contexts[ret'.sid]
              after == contexts'[ret'.sid]
          IN IF before.current_drug # ret'.arg
             THEN after.current_drug = ret'.arg /\ after.topics = <<>>
             ELSE after = before
    /\ \A s \in Kept :
          contexts'[s].current_drug # contexts[s].current_drug
             => contexts'[s].topics = <<>>

\* C21: update_drug with a name other than the stored one (compared as
\* written) stores the name and empties the topics; with the stored name it
\* changes nothing of the context.  No operation on a context changes its
\* drug and leaves a topic, so the topics are those added since the drug
\* last changed.
C21_TopicsSinceDrugChange == [][C21_Step]_vars

\* The drug of a session with documents and a query was changed.
C21_Witness ==
    /\ ret.op = "update_drug" /\ ret.val
    /\ ret.sid \in DOMAIN contexts
    /\ RetCtx.current_drug = ret.arg
    /\ RetCtx.topics = <<>>
    /\ RetCtx.documents_indexed # <<>>
    /\ RetCtx.query_history # <<>>

C22_Step ==
    /\ ret'.op = "add_document" =>
          LET once == contexts'[ret'.sid]
              twice == add_document(once, ret'.arg)
          IN /\ once = add_document(contexts[ret'.sid], ret'.arg)
             /\ twice.documents_indexed = once.documents_indexed
             /\ Cardinality(SeqToSet(twice.documents_indexed))
                   = Cardinality(SeqToSet(once.documents_indexed))
    /\ (/\ ret.op = "add_document" /\ ret'.op = "add_document"
        /\ ret'.sid = ret.sid /\ ret'.arg = ret.arg)
       => contexts'[ret.sid].documents_indexed = contexts[ret.sid].documents_indexed

\* C22: from every state of a session, add_document(id) called twice
\* leaves the same recorded documents, as many, as add_document(id) called
\* once.
C22_AddDocumentIdempotent == [][C22_Step]_vars

\* A second add_document of the same document has returned.
C22_Witness ==
    /\ ret.op = "add_document" /\ ~ret.val
    /\ ret.sid \in DOMAIN contexts
    /\ RetCtx.documents_indexed = <<ret.arg>>

C23_Step ==
    (ret'.op = "reset_context" /\ ret'.sid \in DOMAIN contexts) =>
       LET after == contexts'[ret'.sid]
       IN /\ after.current_drug = None
          /\ after.topics = <<>>
          /\ after.documents_indexed = <<>>
          /\ after.agencies = <<"FDA", "EMA">>
          /\ \A n \in Names : needs_new_documents(after, n)

\* C23: reset of a session's context, whatever it held, leaves it with no
\* drug, no topics, no recorded documents and the default agencies FDA and
\* EMA, so that needs_new_documents is true of every name afterwards.
C23_ResetYieldsEmpty == [][C23_Step]_vars

\* The context of a session that had one has been reset.
C23_Witness ==
    /\ ret.op = "reset_context" /\ ret.val
    /\ ret.sid \in DOMAIN contexts
    /\ RetCtx.documents_indexed = <<>>
    /\ \A n \in Names : needs_new_documents(RetCtx, n)

C24_Step ==
    /\ ret'.op = "get_context" =>
          IF ret'.sid \in DOMAIN contexts
          THEN contexts'[ret'.sid] = contexts[ret'.sid]
          ELSE contexts'[ret'.sid] = NewContext
    /\ \A t \in Sessions \ {ret'.sid} :
          /\ t \in DOMAIN contexts' <=> t \in DOMAIN contexts
          /\ t \in DOMAIN contexts => contexts'[t] = contexts[t]

\* C24: get_context gives a session the context it already has, and a new
\* empty one the first time; an operation on a session, reset_context and
\* delete_context among them, neither creates, removes nor changes the
\* context of another session.
C24_SessionsApart == [][C24_Step]_vars

\* A session's context was deleted while another session held a drug and a
\* document.
C24_Witness ==
    /\ ret.op = "delete_context" /\ ret.val
    /\ ret.sid \notin DOMAIN contexts
    /\ \E t \in DOMAIN contexts :
          /\ contexts[t].current_drug # None
          /\ contexts[t].documents_indexed # <<>>

(***************************************************************************)
(* The results of search                                                   *)
(***************************************************************************)
\* a >= b for similarity scores, kept as fractions.
ScoreAtLeast(a, b) == a.num * b.den >= b.num * a.den

\* C25: for every query and every k not above the number of stored
\* vectors, search lists its results by non-decreasing distance, and so by
\* non-increasing similarity_score = 1 / (1 + distance).
C25_ResultsByDistance ==
    (ret.op = "search" /\ out.raised = "" /\ out.k <= Len(vsIndex[ret.sid])) =>
       /\ \A i \in 1..Len(out.results) :
             /\ out.results[i].similarity_score.num = 1
             /\ out.results[i].similarity_score.den = 1 + out.results[i].distance
       /\ \A i, j \in 1..Len(out.results) :
             i < j =>
                /\ out.results[i].distance <= out.results[j].distance
                /\ ScoreAtLeast(out.results[i].similarity_score,
                                out.results[j].similarity_score)

\* A search returned a later-stored fragment before an earlier-stored one,
\* at a smaller distance.
C25_Witness ==
    /\ ret.op = "search" /\ out.raised = ""
    /\ out.k <= Len(vsIndex[ret.sid])
    /\ Len(out.results) >= 2
    /\ out.results[1].distance < out.results[2].distance
    /\ out.results[1].chunk_id > out.results[2].chunk_id

\* C26: search with k >= 1 returns at most min(k, number of stored vectors)
\* results, and on an empty store returns the empty list without raising,
\* whether or not the query can be embedded.
C26_AtMostKAndEmptyOnEmpty ==
    (ret.op = "search" /\ out.k >= 1) =>
       /\ Len(out.results) <= Min(out.k, Len(vsIndex[ret.sid]))
       /\ vsIndex[ret.sid] = <<>> => out.results = <<>> /\ out.raised = ""

\* A search of an empty store returned while the query could not be
\* embedded.
C26_Witness ==
    /\ ret.op = "search" /\ out.k >= 1
    /\ vsIndex[ret.sid] = <<>> /\ vsMeta[ret.sid] = <<>>
    /\ ~out.embedOk
    /\ out.results = <<>> /\ out.raised = ""

(***************************************************************************)
(* A query about another drug, and what a session records as ingested      *)
(***************************************************************************)
\* The query's drug is another than the one the session held when the
\* query arrived, and the session holds recorded documents.
DrugSwitched ==
    /\ ret'.sid \in DOMAIN contexts
    /\ \/ Falsy(contexts[ret'.sid].current_drug)
       \/ Lower(contexts[ret'.sid].current_drug) # Lower(out'.drug_name)
    /\ contexts[ret'.sid].documents_indexed # <<>>

\* C27: a process_query whose drug differs from the drug the session held
\* when the query arrived, on a session that holds recorded documents, makes
\* a retrieval pass for the new drug, also when the intent's
\* needs_documents is false.
C27_SwitchRetrieves ==
    [][(ret'.op = "process_query" /\ out'.decided /\ DrugSwitched)
       => out'.retrieved]_vars

\* The files with a fragment in the orchestrator's index.
IndexedFiles == {vsMeta["orch"][i].file_path : i \in 1..Len(vsMeta["orch"])}

\* C28: after a process_query every document a session records as
\* ingested has fragments in the index; a downloaded document whose
\* processing or add_documents failed is not recorded.
C28_RecordedAreIndexed ==
    ret.op = "process_query" =>
       \A s \in DOMAIN contexts :
          SeqToSet(contexts[s].documents_indexed) \subseteq IndexedFiles

(***************************************************************************)
(* A query whose intent could not be extracted                             *)
(***************************************************************************)
\* C29: when the intent extraction fails or its output is malformed,
\* process_query returns status 'clarification_needed' (the default
\* intent: no drug, no retrieval asked for), the session's drug, topics,
\* recorded documents and queries are as before, no source is contacted and
\* the index is not modified.
C29_FailedIntentAsksBack ==
    [][(ret'.op = "process_query" /\ out'.reply_kind # "intent")
       => /\ out'.status = "clarification_needed"
          /\ out'.names = <<>> /\ ~out'.needs_documents
          /\ Remembered(contexts', ret'.sid) = Remembered(contexts, ret'.sid)
          /\ ~out'.retrieved /\ out'.agencies_searched = <<>>
          /\ IndexUntouched]_vars

(***************************************************************************)
(* add_documents raising                                                   *)
(***************************************************************************)
\* C30: when add_documents raises (no chunks, no chunk embedded, or the
\* save failing) the store's vectors and metadata and the two files are as
\* they were before the call, so the document adds nothing to later
\* searches.
C30_RaiseLeavesStore ==
    [][(ret'.op = "add_documents" /\ ~ret'.val)
       => /\ vsIndex'[ret'.sid] = vsIndex[ret'.sid]
          /\ vsMeta'[ret'.sid] = vsMeta[ret'.sid]
          /\ diskIndex' = diskIndex
          /\ diskMeta' = diskMeta
          /\ \A q \in Queries :
                search(StoreAfter(ret'.sid), q, MaxK, TRUE)
                   = search(Store(ret'.sid), q, MaxK, TRUE)]_vars

====
